---------------------------- MODULE Spec2Model ----------------------------
(***************************************************************************)
(* A model of the static file server of src/main.py.                      *)
(*                                                                         *)
(* main.py is a bootstrap (run_server) around two standard-library         *)
(* classes: socketserver.TCPServer and http.server.SimpleHTTPRequestHandler*)
(* (MyHttpRequestHandler.do_GET calls the parent's do_GET).  Every call    *)
(* main.py makes is modelled by what the called code does, as it is in     *)
(* CPython 3.11 (Lib/socketserver.py, Lib/http/server.py, Lib/posixpath.py,*)
(* Lib/genericpath.py, Lib/urllib/parse.py, Lib/mimetypes.py); each        *)
(* definition names the library function it follows.                      *)
(*                                                                         *)
(* Strings are sequences of one-character strings, so that splitting,      *)
(* unquoting, normalising and extension handling are computed and not      *)
(* assumed.  The file system is a map from absolute paths (sequences of    *)
(* names) to regular files and directories; symbolic links are not         *)
(* modelled.  Requests are HTTP/1.x requests with a request line of three  *)
(* words.                                                                  *)
(***************************************************************************)
EXTENDS Integers, Sequences, FiniteSets, TLC

---------------------------------------------------------------------------
(* Strings *)

SEP == "/"
DOT == <<".">>
DOTDOT == <<".", ".">>
EMPTY == <<>>

\* str.find(c): the least index of c in s, 0 when there is none
Find(s, c) ==
  IF \E i \in 1..Len(s) : s[i] = c
  THEN CHOOSE i \in 1..Len(s) : s[i] = c /\ \A j \in 1..(i - 1) : s[j] # c
  ELSE 0

\* str.rfind(c): the greatest index of c in s, 0 when there is none
RFind(s, c) ==
  IF \E i \in 1..Len(s) : s[i] = c
  THEN CHOOSE i \in 1..Len(s) : s[i] = c /\ \A j \in (i + 1)..Len(s) : s[j] # c
  ELSE 0

\* str.split(c): the pieces of s between the occurrences of c
RECURSIVE Split(_, _)
Split(s, c) ==
  LET i == Find(s, c)
  IN  IF i = 0 THEN <<s>>
      ELSE <<SubSeq(s, 1, i - 1)>> \o Split(SubSeq(s, i + 1, Len(s)), c)

\* c.join(pieces)
RECURSIVE JoinWith(_, _)
JoinWith(pieces, c) ==
  IF pieces = <<>> THEN <<>>
  ELSE IF Len(pieces) = 1 THEN pieces[1]
  ELSE pieces[1] \o <<c>> \o JoinWith(Tail(pieces), c)

StartsWith(s, p) == Len(s) >= Len(p) /\ SubSeq(s, 1, Len(p)) = p
EndsWith(s, c) == Len(s) > 0 /\ s[Len(s)] = c

\* str.split(c, 1)[0]
BeforeFirst(s, c) == Split(s, c)[1]

\* filter(None, words)
RECURSIVE NonEmpty(_)
NonEmpty(words) ==
  IF words = <<>> THEN <<>>
  ELSE IF words[1] = EMPTY THEN NonEmpty(Tail(words))
  ELSE <<words[1]>> \o NonEmpty(Tail(words))

\* str.lower() on the letters that occur in the model's names
LowerChar(c) ==
  CASE c = "J" -> "j" [] c = "S" -> "s" [] c = "O" -> "o" [] c = "N" -> "n"
    [] c = "Z" -> "z" [] OTHER -> c

Lower(s) == [i \in 1..Len(s) |-> LowerChar(s[i])]

---------------------------------------------------------------------------
(* urllib.parse.unquote *)

\* _hextobyte, on the escapes the model's request paths use
HexPairs == { <<"2", "e">>, <<"2", "E">>, <<"2", "f">>, <<"2", "F">> }

HexToByte(pair) ==
  CASE pair = <<"2", "e">> -> "."
    [] pair = <<"2", "E">> -> "."
    [] pair = <<"2", "f">> -> "/"
    [] pair = <<"2", "F">> -> "/"

\* the loop of unquote_to_bytes over bits[1:]
RECURSIVE UnquoteBits(_)
UnquoteBits(bits) ==
  IF bits = <<>> THEN <<>>
  ELSE LET item == bits[1]
           head == SubSeq(item, 1, 2)
       IN  (IF head \in HexPairs
            THEN <<HexToByte(head)>> \o SubSeq(item, 3, Len(item))
            ELSE <<"%">> \o item)
           \o UnquoteBits(Tail(bits))

unquote(string) ==
  LET bits == Split(string, "%")
  IN  IF Len(bits) = 1 THEN string
      ELSE bits[1] \o UnquoteBits(Tail(bits))

---------------------------------------------------------------------------
(* posixpath.normpath *)

\* the loop over comps: new_comps after every component has been seen
RECURSIVE NormComps(_, _, _)
NormComps(comps, new_comps, initial_slashes) ==
  IF comps = <<>> THEN new_comps
  ELSE LET comp == comps[1]
           rest == Tail(comps)
       IN  IF comp = EMPTY \/ comp = DOT
           THEN NormComps(rest, new_comps, initial_slashes)
           ELSE IF \/ comp # DOTDOT
                   \/ (initial_slashes = 0 /\ new_comps = <<>>)
                   \/ (new_comps # <<>> /\ new_comps[Len(new_comps)] = DOTDOT)
           THEN NormComps(rest, Append(new_comps, comp), initial_slashes)
           ELSE IF new_comps # <<>>
           THEN NormComps(rest, SubSeq(new_comps, 1, Len(new_comps) - 1),
                          initial_slashes)
           ELSE NormComps(rest, new_comps, initial_slashes)

normpath(path) ==
  IF path = EMPTY THEN DOT
  ELSE LET initial_slashes ==
             IF ~StartsWith(path, <<SEP>>) THEN 0
             ELSE IF StartsWith(path, <<SEP, SEP>>)
                     /\ ~StartsWith(path, <<SEP, SEP, SEP>>) THEN 2
             ELSE 1
           comps == NormComps(Split(path, SEP), <<>>, initial_slashes)
           joined == JoinWith(comps, SEP)
           out == [i \in 1..initial_slashes |-> SEP] \o joined
       IN  IF out = EMPTY THEN DOT ELSE out

---------------------------------------------------------------------------
(* Names, the file system, and the kernel's path lookup *)

N_srv == <<"s", "r", "v">>
N_docs == <<"d", "o", "c", "s">>
N_secret == <<"s", "e", "c", "r", "e", "t">>
N_hello_txt == <<"h", "e", "l", "l", "o", ".", "t", "x", "t">>
N_index_html == <<"i", "n", "d", "e", "x", ".", "h", "t", "m", "l">>
N_index_htm == <<"i", "n", "d", "e", "x", ".", "h", "t", "m">>
N_data_json == <<"d", "a", "t", "a", ".", "j", "s", "o", "n">>
N_a_zz == <<"a", ".", "z", "z">>

\* the process's current working directory, the serving root: os.getcwd()
RootKey == <<N_srv>>
getcwd == <<SEP>> \o N_srv

File(data, readable, mtime) ==
  [kind |-> "file", readable |-> readable, data |-> data, mtime |-> mtime]
Dir(readable) ==
  [kind |-> "dir", readable |-> readable, data |-> <<>>, mtime |-> 0]

\* what every modelled file system holds: /, /srv and a file above the root
BaseFiles ==
  ( <<>> :> Dir(TRUE) ) @@ ( RootKey :> Dir(TRUE) ) @@
  ( <<N_secret>> :> File(<<"T", "O", "P">>, TRUE, 2) )

\* a populated root: files of several types, a directory with an index
FS_full ==
  BaseFiles @@
  ( <<N_srv, N_hello_txt>> :> File(<<"h", "i">>, TRUE, 2) ) @@
  ( <<N_srv, N_data_json>> :> File(<<"{", "}">>, TRUE, 2) ) @@
  ( <<N_srv, N_a_zz>> :> File(<<"z">>, TRUE, 2) ) @@
  ( <<N_srv, N_docs>> :> Dir(TRUE) ) @@
  ( <<N_srv, N_docs, N_index_html>> :> File(<<"<", ">">>, TRUE, 2) ) @@
  ( <<N_srv, N_docs, N_hello_txt>> :> File(<<"h", "o">>, TRUE, 2) )

\* a sparse root: an unreadable file, an in-root file called secret, a
\* directory without an index
FS_sparse ==
  BaseFiles @@
  ( <<N_srv, N_hello_txt>> :> File(<<"h", "i">>, FALSE, 2) ) @@
  ( <<N_srv, N_secret>> :> File(<<"o", "k">>, TRUE, 2) ) @@
  ( <<N_srv, N_data_json>> :> File(<<"[", "]">>, TRUE, 1) ) @@
  ( <<N_srv, N_docs>> :> Dir(TRUE) ) @@
  ( <<N_srv, N_docs, N_a_zz>> :> File(<<"z">>, TRUE, 2) )

\* a root whose directory cannot be listed and has only index.htm below
FS_locked ==
  BaseFiles @@
  ( <<N_srv, N_index_html>> :> File(<<"<", ">">>, TRUE, 2) ) @@
  ( <<N_srv, N_docs>> :> Dir(FALSE) ) @@
  ( <<N_srv, N_docs, N_secret>> :> Dir(TRUE) ) @@
  ( <<N_srv, N_docs, N_secret, N_index_htm>> :> File(<<"m">>, TRUE, 2) )

FileSystems == { FS_full, FS_sparse, FS_locked }

ENOENT == << <<"E", "N", "O", "E", "N", "T">>, <<>> >>
ENOTDIR == << <<"E", "N", "O", "T", "D", "I", "R">>, <<>> >>
IsErrno(k) == k = ENOENT \/ k = ENOTDIR

IsDirKey(f, k) == k \in DOMAIN f /\ f[k].kind = "dir"

\* the kernel's walk of a path's components from the directory cur
RECURSIVE Walk(_, _, _)
Walk(f, cur, comps) ==
  IF comps = <<>> THEN cur
  ELSE IF ~IsDirKey(f, cur) THEN ENOTDIR
  ELSE LET comp == comps[1]
           rest == Tail(comps)
       IN  IF comp = EMPTY \/ comp = DOT THEN Walk(f, cur, rest)
           ELSE IF comp = DOTDOT
           THEN Walk(f, IF cur = <<>> THEN cur
                        ELSE SubSeq(cur, 1, Len(cur) - 1), rest)
           ELSE IF Append(cur, comp) \in DOMAIN f
           THEN Walk(f, Append(cur, comp), rest)
           ELSE ENOENT

\* path lookup of an absolute path string: the key it names, or an errno
namei(f, path) == Walk(f, <<>>, Split(path, SEP))

isdir(f, path) == LET k == namei(f, path) IN ~IsErrno(k) /\ f[k].kind = "dir"
isfile(f, path) == LET k == namei(f, path) IN ~IsErrno(k) /\ f[k].kind = "file"

\* open(path, 'rb') succeeds: a readable regular file (anything else is OSError)
CanOpen(f, path) ==
  LET k == namei(f, path)
  IN  ~IsErrno(k) /\ f[k].kind = "file" /\ f[k].readable

\* os.listdir(path) succeeds
CanList(f, path) ==
  LET k == namei(f, path)
  IN  ~IsErrno(k) /\ f[k].kind = "dir" /\ f[k].readable

---------------------------------------------------------------------------
(* posixpath.dirname, posixpath.join, SimpleHTTPRequestHandler.translate_path *)

RECURSIVE RStripSep(_)
RStripSep(s) == IF EndsWith(s, SEP) THEN RStripSep(SubSeq(s, 1, Len(s) - 1)) ELSE s

dirname(p) ==
  LET head == SubSeq(p, 1, RFind(p, SEP))
  IN  IF head # EMPTY /\ RStripSep(head) # EMPTY THEN RStripSep(head) ELSE head

join(a, b) ==
  IF StartsWith(b, <<SEP>>) THEN b
  ELSE IF a = EMPTY \/ EndsWith(a, SEP) THEN a \o b
  ELSE a \o <<SEP>> \o b

\* the loop of translate_path over words
RECURSIVE JoinWords(_, _)
JoinWords(path, words) ==
  IF words = <<>> THEN path
  ELSE IF dirname(words[1]) # EMPTY \/ words[1] = DOT \/ words[1] = DOTDOT
  THEN JoinWords(path, Tail(words))
  ELSE JoinWords(join(path, words[1]), Tail(words))

\* translate_path without normpath and without the filter on "." and "..":
\* the unquoted path appended to the directory
translate_path_naive(directory, path) ==
  directory \o <<SEP>> \o unquote(BeforeFirst(BeforeFirst(path, "?"), "#"))

\* request paths hold no white space, so path.rstrip() is path
translate_path(directory, path) ==
  LET p1 == BeforeFirst(BeforeFirst(path, "?"), "#")
      trailing_slash == EndsWith(p1, SEP)
      p2 == normpath(unquote(p1))
      words == NonEmpty(Split(p2, SEP))
      out == JoinWords(directory, words)
  IN  IF trailing_slash THEN out \o <<SEP>> ELSE out

---------------------------------------------------------------------------
(* Content types: posixpath.splitext, mimetypes, guess_type *)

\* genericpath._splitext: the extension from the last dot, leading dots skipped
splitext(p) ==
  LET sepIndex == RFind(p, SEP)
      dotIndex == RFind(p, ".")
  IN  IF dotIndex > sepIndex
         /\ \E i \in (sepIndex + 1)..(dotIndex - 1) : p[i] # "."
      THEN [root |-> SubSeq(p, 1, dotIndex - 1), ext |-> SubSeq(p, dotIndex, Len(p))]
      ELSE [root |-> p, ext |-> EMPTY]

NoType == ""

\* SimpleHTTPRequestHandler.extensions_map
extensions_map ==
  ( <<".", "g", "z">> :> "application/gzip" ) @@
  ( <<".", "Z">> :> "application/octet-stream" ) @@
  ( <<".", "b", "z", "2">> :> "application/x-bzip2" ) @@
  ( <<".", "x", "z">> :> "application/x-xz" )

\* mimetypes.types_map, the entries for the extensions the model's names carry
types_map ==
  ( <<".", "h", "t", "m", "l">> :> "text/html" ) @@
  ( <<".", "h", "t", "m">> :> "text/html" ) @@
  ( <<".", "j", "s", "o", "n">> :> "application/json" ) @@
  ( <<".", "t", "x", "t">> :> "text/plain" )

\* mimetypes.guess_type(path)[0]; no modelled name carries a suffix_map or
\* encodings_map extension
mimetypes_guess_type(path) ==
  LET ext == Lower(splitext(path).ext)
  IN  IF ext \in DOMAIN types_map THEN types_map[ext] ELSE NoType

\* guess_type that never consults the tables
guess_type_default(path) == "application/octet-stream"

guess_type(path) ==
  LET ext == splitext(path).ext
  IN  IF ext \in DOMAIN extensions_map THEN extensions_map[ext]
      ELSE IF Lower(ext) \in DOMAIN extensions_map THEN extensions_map[Lower(ext)]
      ELSE IF mimetypes_guess_type(path) # NoType THEN mimetypes_guess_type(path)
      ELSE "application/octet-stream"

---------------------------------------------------------------------------
(* Requests and responses *)

\* the "file" of a response is the file or directory its body was read from
NoFile == << <<>> >>
NoStream == [open |-> FALSE, data |-> <<>>, file |-> NoFile]

\* an If-Modified-Since header: absent, or present with a date; a date that
\* is ill-formed or carries a zone other than UTC is ignored by send_head
NoIMS == [has |-> FALSE, utc |-> FALSE, t |-> 0]
IMS(t) == [has |-> TRUE, utc |-> TRUE, t |-> t]
IgnoredIMS == [has |-> TRUE, utc |-> FALSE, t |-> 0]

Request(method, path, ims, inm) ==
  [method |-> method, path |-> path, ims |-> ims, inm |-> inm]

Resp(status, ctype, location, body, file) ==
  [status |-> status, ctype |-> ctype, location |-> location,
   body |-> body, file |-> file]

NoResp == Resp(0, NoType, <<>>, <<>>, NoFile)

ErrorPage(code) == <<"<", ToString(code), ">">>
ListingPage == <<"<", "l", "s", ">">>

\* send_error that reports a missing file as forbidden
send_error_forbidden(command, code) ==
  Resp(IF code = 404 THEN 403 ELSE code, "text/html;charset=utf-8", <<>>,
       IF command # "HEAD" THEN ErrorPage(403) ELSE <<>>, NoFile)

\* BaseHTTPRequestHandler.send_error: status, error content type and, except
\* for HEAD and the body-less codes, an error page
send_error(command, code) ==
  LET hasBody == code >= 200 /\ code \notin {204, 205, 304}
  IN  Resp(code,
           IF hasBody THEN "text/html;charset=utf-8" ELSE NoType,
           <<>>,
           IF hasBody /\ command # "HEAD" THEN ErrorPage(code) ELSE <<>>,
           NoFile)

\* parse_request's treatment of the path word (gh-87389)
RECURSIVE LStripSep(_)
LStripSep(s) == IF StartsWith(s, <<SEP>>) THEN LStripSep(Tail(s)) ELSE s

parse_path(path) ==
  IF StartsWith(path, <<SEP, SEP>>) THEN <<SEP>> \o LStripSep(path) ELSE path

\* urllib.parse.urlsplit(path).path for a path without scheme or netloc
urlsplit_path(path) == BeforeFirst(BeforeFirst(path, "#"), "?")

\* SimpleHTTPRequestHandler.list_directory: [head, f]
list_directory(f, command, path) ==
  IF ~CanList(f, path)
  THEN [head |-> send_error(command, 404), f |-> NoStream]
  ELSE [head |-> Resp(200, "text/html; charset=utf-8", <<>>, <<>>, NoFile),
        f |-> [open |-> TRUE, data |-> ListingPage, file |-> namei(f, path)]]

\* the index file send_head serves for a directory, EMPTY when there is none
IndexOf(f, path) ==
  IF isfile(f, join(path, N_index_html)) THEN join(path, N_index_html)
  ELSE IF isfile(f, join(path, N_index_htm)) THEN join(path, N_index_htm)
  ELSE EMPTY

\* send_head from "ctype = self.guess_type(path)" on
send_file(f, req, path) ==
  LET ctype == guess_type(path)
      key == namei(f, path)
  IN  IF EndsWith(path, SEP) \/ ~CanOpen(f, path)
      THEN [head |-> send_error(req.method, 404), f |-> NoStream]
      ELSE IF req.ims.has /\ ~req.inm /\ req.ims.utc /\ f[key].mtime <= req.ims.t
      THEN [head |-> Resp(304, NoType, <<>>, <<>>, NoFile), f |-> NoStream]
      ELSE [head |-> Resp(200, ctype, <<>>, <<>>, NoFile),
            f |-> [open |-> TRUE, data |-> f[key].data, file |-> key]]

\* SimpleHTTPRequestHandler.send_head: the status line and headers sent, and
\* the stream the caller has to copy
send_head(f, directory, req) ==
  LET selfpath == parse_path(req.path)
      path == translate_path(directory, selfpath)
  IN  IF isdir(f, path)
      THEN IF ~EndsWith(urlsplit_path(selfpath), SEP)
           THEN [head |-> Resp(301, NoType, urlsplit_path(selfpath) \o <<SEP>>,
                               <<>>, NoFile),
                 f |-> NoStream]
           ELSE IF IndexOf(f, path) # EMPTY
           THEN send_file(f, req, IndexOf(f, path))
           ELSE list_directory(f, req.method, path)
      ELSE send_file(f, req, path)

\* SimpleHTTPRequestHandler.do_GET: send_head, then copyfile(f, self.wfile)
SimpleHTTPRequestHandler_do_GET(f, directory, req) ==
  LET h == send_head(f, directory, req)
  IN  IF h.f.open
      THEN [h.head EXCEPT !.body = h.head.body \o h.f.data, !.file = h.f.file]
      ELSE h.head

\* SimpleHTTPRequestHandler.do_HEAD: send_head, the stream closed unread
SimpleHTTPRequestHandler_do_HEAD(f, directory, req) ==
  send_head(f, directory, req).head

\* an override of do_GET that sends the headers and never copies the file
do_GET_headers_only(f, directory, req) ==
  send_head(f, directory, req).head

\* MyHttpRequestHandler.do_GET
MyHttpRequestHandler_do_GET(f, directory, req) ==
  SimpleHTTPRequestHandler_do_GET(f, directory, req)

\* BaseHTTPRequestHandler.handle_one_request after parse_request: dispatch
\* on "do_" + command, 501 for a command the handler has no method for
handle_one_request(f, directory, req) ==
  IF req.method = "GET" THEN MyHttpRequestHandler_do_GET(f, directory, req)
  ELSE IF req.method = "HEAD" THEN SimpleHTTPRequestHandler_do_HEAD(f, directory, req)
  ELSE send_error(req.method, 501)

---------------------------------------------------------------------------
(* Bounds and inputs *)

\* the greatest number of "/"-separated segments of a request path
MaxSegs == 3
\* the number of clients that connect concurrently
MaxClients == 2

\* run_server's default for port
DefaultPort == 8000

Procs == {"first", "second"}
Clients == 1..MaxClients
\* the clients of the specification that enumerates the GET requests
GetClients == {1}

\* the argument lists run_server is called with
ArgLists == { <<>>, <<0>>, <<DefaultPort + 1>> }
\* the ports the kernel hands out for a bind to port 0
EphemeralPorts == { 49152, 49153 }

\* the segments request paths are put together from
PathSegments ==
  { EMPTY, DOT, DOTDOT, <<"%", "2", "e", "%", "2", "e">>,
    N_docs, N_secret, N_hello_txt, N_data_json, N_a_zz }

RECURSIVE SegSeqs(_)
SegSeqs(n) ==
  IF n = 0 THEN { <<>> }
  ELSE { <<s>> \o t : s \in PathSegments, t \in SegSeqs(n - 1) }

\* the request paths: up to MaxSegs segments joined by "/"; the path word of
\* a request line is never empty
Paths ==
  { JoinWith(segs, SEP) : segs \in UNION { SegSeqs(n) : n \in 1..MaxSegs } }
  \ { EMPTY }

HeaderSets ==
  { [ims |-> NoIMS, inm |-> FALSE], [ims |-> IMS(1), inm |-> FALSE],
    [ims |-> IMS(2), inm |-> FALSE], [ims |-> IMS(2), inm |-> TRUE],
    [ims |-> IgnoredIMS, inm |-> FALSE] }

\* every GET request over Paths and HeaderSets
Requests == { Request("GET", p, h.ims, h.inm) : p \in Paths, h \in HeaderSets }

\* a few requests of each outcome, for the specification of the life cycle
SampleRequests ==
  { Request("GET", <<SEP>> \o N_hello_txt, NoIMS, FALSE),
    Request("GET", <<SEP>> \o DOTDOT \o <<SEP>> \o N_secret, NoIMS, FALSE),
    Request("POST", <<SEP>>, NoIMS, FALSE) }

NoRequest == Request("", EMPTY, NoIMS, FALSE)

---------------------------------------------------------------------------
(* State *)

VARIABLES
  fs,       \* the file system
  pc,       \* per process: where run_server is
  args,     \* per process: the arguments run_server was called with
  port,     \* per process: run_server's parameter port
  sock,     \* per process: the port of server.server_address, 0 when unbound
  out,      \* per process: the ports announced on standard output
  exit,     \* per process: the exit status, -1 while there is none
  cause,    \* per process: what ended it, the exception of the last traceback
  conn      \* per client: its connection

vars == <<fs, pc, args, port, sock, out, exit, cause, conn>>

ClosedConn == [st |-> "closed", srv |-> "", req |-> NoRequest, resp |-> NoResp]

\* the listening socket exists from TCPServer's constructor to server_close
Listening(p) == pc[p] \in {"bound", "serving", "handling"}

Init ==
  /\ fs \in FileSystems
  /\ pc = [p \in Procs |-> "idle"]
  /\ args = [p \in Procs |-> <<>>]
  /\ port = [p \in Procs |-> 0]
  /\ sock = [p \in Procs |-> 0]
  /\ out = [p \in Procs |-> <<>>]
  /\ exit = [p \in Procs |-> -1]
  /\ cause = [p \in Procs |-> ""]
  /\ conn = [c \in Clients |-> ClosedConn]

---------------------------------------------------------------------------
(* run_server *)

\* bind with SO_REUSEPORT set: a port in use is no error
AddressInUse_reuse(prt) == FALSE

\* socket.bind fails with EADDRINUSE: TCPServer sets neither SO_REUSEADDR nor
\* SO_REUSEPORT, and another listener holds the port
AddressInUse(prt) == \E q \in Procs : Listening(q) /\ sock[q] = prt

\* run_server(*a) up to the end of TCPServer's constructor (bind, listen);
\* a failing bind closes the socket and the OSError leaves the process with
\* a traceback on standard error and exit status 1
Start(p, a) ==
  /\ pc[p] = "idle"
  /\ args' = [args EXCEPT ![p] = a]
  /\ LET prt == IF a = <<>> THEN DefaultPort ELSE a[1]
     IN  /\ port' = [port EXCEPT ![p] = prt]
         /\ IF prt # 0 /\ AddressInUse(prt)
            THEN /\ pc' = [pc EXCEPT ![p] = "failed"]
                 /\ exit' = [exit EXCEPT ![p] = 1]
                 /\ cause' = [cause EXCEPT ![p] = "OSError"]
                 /\ sock' = sock
            ELSE /\ pc' = [pc EXCEPT ![p] = "bound"]
                 /\ \E b \in (IF prt = 0 THEN EphemeralPorts ELSE {prt}) :
                      /\ ~AddressInUse(b)
                      /\ sock' = [sock EXCEPT ![p] = b]
                 /\ UNCHANGED <<exit, cause>>
  /\ UNCHANGED <<fs, out, conn>>

\* print(f"Serving at port {port}"), then serve_forever is entered
Announce(p) ==
  /\ pc[p] = "bound"
  /\ out' = [out EXCEPT ![p] = Append(@, port[p])]
  /\ pc' = [pc EXCEPT ![p] = "serving"]
  /\ UNCHANGED <<fs, args, port, sock, exit, cause, conn>>

---------------------------------------------------------------------------
(* serve_forever: the accept loop and one request per connection *)

\* a client connects to a listening socket: the kernel queues the connection
Connect(c, p) ==
  /\ conn[c].st = "closed"
  /\ Listening(p)
  /\ conn' = [conn EXCEPT ![c] = [ClosedConn EXCEPT !.st = "queued", !.srv = p]]
  /\ UNCHANGED <<fs, pc, args, port, sock, out, exit, cause>>

\* a threading server: the loop accepts while a request is being handled
CanAccept_threaded(p) == pc[p] \in {"serving", "handling"}

\* serve_forever reaches get_request only from its select loop: TCPServer
\* (no ThreadingMixIn, no ForkingMixIn) runs process_request to its end first
CanAccept(p) == pc[p] = "serving"

\* _handle_request_noblock: get_request accepts a queued connection
Accept(p, c) ==
  /\ CanAccept(p)
  /\ conn[c].st = "queued" /\ conn[c].srv = p
  /\ conn' = [conn EXCEPT ![c].st = "accepted"]
  /\ pc' = [pc EXCEPT ![p] = "handling"]
  /\ UNCHANGED <<fs, args, port, sock, out, exit, cause>>

\* handle_one_request: the request line and the headers are read and parsed
ReadRequest(p, c, R) ==
  /\ conn[c].st = "accepted" /\ conn[c].srv = p
  /\ \E r \in R : conn' = [conn EXCEPT ![c].st = "read", ![c].req = r]
  /\ UNCHANGED <<fs, pc, args, port, sock, out, exit, cause>>

\* handle_one_request: the client sent nothing (empty raw_requestline)
ReadEOF(p, c) ==
  /\ conn[c].st = "accepted" /\ conn[c].srv = p
  /\ conn' = [conn EXCEPT ![c].st = "done"]
  /\ UNCHANGED <<fs, pc, args, port, sock, out, exit, cause>>

\* a handler that appends to an access log in the serving root
finish_request_logging(f, req) ==
  [resp |-> handle_one_request(f, getcwd, req),
   fs |-> ( <<N_srv, <<"l", "o", "g">>>> :> File(req.path, TRUE, 3) ) @@ f]

\* finish_request: MyHttpRequestHandler(request, client_address, server)
\* handles the request in the current working directory; what it writes to
\* the socket and the file system it leaves
finish_request(f, req) ==
  [resp |-> handle_one_request(f, getcwd, req), fs |-> f]

\* the response is written and flushed
Respond(p, c) ==
  /\ conn[c].st = "read" /\ conn[c].srv = p
  /\ LET done == finish_request(fs, conn[c].req)
     IN  /\ conn' = [conn EXCEPT ![c].st = "done", ![c].resp = done.resp]
         /\ fs' = done.fs
  /\ UNCHANGED <<pc, args, port, sock, out, exit, cause>>

\* the errors a handler raises when the client goes away mid-response
HandlerErrors == {"BrokenPipeError", "ConnectionResetError"}

\* a loop without the except clause: the handler's error leaves serve_forever
CaughtByServer_none(e) == FALSE

\* _handle_request_noblock: "except Exception" calls handle_error and goes
\* on; the errors of HandlerErrors are subclasses of Exception
CaughtByServer(e) == e \in HandlerErrors

\* the handler raises while the response is written (handle_error's
\* traceback on standard error is not part of the state)
RespondFails(p, c, e) ==
  /\ conn[c].st = "read" /\ conn[c].srv = p
  /\ IF CaughtByServer(e)
     THEN /\ conn' = [conn EXCEPT ![c].st = "aborted", ![c].req = NoRequest]
          /\ UNCHANGED <<pc, exit, cause>>
     ELSE /\ conn' = [d \in Clients |->
                        IF conn[d].srv = p THEN ClosedConn ELSE conn[d]]
          /\ pc' = [pc EXCEPT ![p] = "stopped"]
          /\ exit' = [exit EXCEPT ![p] = 1]
          /\ cause' = [cause EXCEPT ![p] = e]
  /\ UNCHANGED <<fs, args, port, sock, out>>

\* shutdown_request: the connection is closed, the loop selects again
Close(p, c) ==
  /\ conn[c].st \in {"done", "aborted"} /\ conn[c].srv = p
  /\ conn' = [conn EXCEPT ![c] = ClosedConn]
  /\ pc' = [pc EXCEPT ![p] = "serving"]
  /\ UNCHANGED <<fs, args, port, sock, out, exit, cause>>

\* the process is interrupted (SIGINT: KeyboardInterrupt leaves the with
\* block, server_close closes the listener, the process ends)
Terminate(p) ==
  /\ Listening(p)
  /\ pc' = [pc EXCEPT ![p] = "stopped"]
  /\ exit' = [exit EXCEPT ![p] = 130]
  /\ cause' = [cause EXCEPT ![p] = "KeyboardInterrupt"]
  /\ conn' = [d \in Clients |-> IF conn[d].srv = p THEN ClosedConn ELSE conn[d]]
  /\ UNCHANGED <<fs, args, port, sock, out>>

---------------------------------------------------------------------------
(* Specifications *)

Next ==
  \/ \E p \in Procs, a \in ArgLists : Start(p, a)
  \/ \E p \in Procs : Announce(p)
  \/ \E p \in Procs, c \in Clients : Connect(c, p)
  \/ \E p \in Procs, c \in Clients : Accept(p, c)
  \/ \E p \in Procs, c \in Clients : ReadRequest(p, c, SampleRequests)
  \/ \E p \in Procs, c \in Clients : ReadEOF(p, c)
  \/ \E p \in Procs, c \in Clients : Respond(p, c)
  \/ \E p \in Procs, c \in Clients, e \in HandlerErrors : RespondFails(p, c, e)
  \/ \E p \in Procs, c \in Clients : Close(p, c)
  \/ \E p \in Procs : Terminate(p)

\* the life cycle: two invocations of run_server, concurrent clients
Spec == Init /\ [][Next]_vars

\* one server, started without arguments and in its accept loop
InitGET ==
  /\ fs \in FileSystems
  /\ pc = [p \in Procs |-> IF p = "first" THEN "serving" ELSE "idle"]
  /\ args = [p \in Procs |-> <<>>]
  /\ port = [p \in Procs |-> IF p = "first" THEN DefaultPort ELSE 0]
  /\ sock = [p \in Procs |-> IF p = "first" THEN DefaultPort ELSE 0]
  /\ out = [p \in Procs |-> IF p = "first" THEN <<DefaultPort>> ELSE <<>>]
  /\ exit = [p \in Procs |-> -1]
  /\ cause = [p \in Procs |-> ""]
  /\ conn = [c \in Clients |-> ClosedConn]

NextGET ==
  \/ \E c \in GetClients : Connect(c, "first")
  \/ \E c \in GetClients : Accept("first", c)
  \/ \E c \in GetClients : ReadRequest("first", c, Requests)
  \/ \E c \in GetClients : ReadEOF("first", c)
  \/ \E c \in GetClients : Respond("first", c)
  \/ \E c \in GetClients, e \in HandlerErrors : RespondFails("first", c, e)
  \/ \E c \in GetClients : Close("first", c)
  \/ Terminate("first")

\* every GET request of Requests, one after the other, on every file system,
\* with failing handlers and termination
SpecGET == InitGET /\ [][NextGET]_vars

---------------------------------------------------------------------------
(* Properties *)

\* the response to a request of client c has been written
Served(c) == conn[c].st = "done" /\ conn[c].req # NoRequest
ServedGET(c) == Served(c) /\ conn[c].req.method = "GET"

InRoot(k) == StartsWith(k, RootKey)

\* the readable regular files under the serving root
ReadableFiles(f) ==
  { k \in DOMAIN f : InRoot(k) /\ f[k].kind = "file" /\ f[k].readable }

\* a file's path relative to the root, as a request path
URLOf(k) == <<SEP>> \o JoinWith(SubSeq(k, Len(RootKey) + 1, Len(k)), SEP)

\* the request is conditional and the file is not newer than its date
NotModifiedSince(f, k, req) ==
  req.ims.has /\ req.ims.utc /\ ~req.inm /\ f[k].mtime <= req.ims.t

\* C1, as stated: a GET for the relative path of an existing readable regular
\* file under the serving root is answered 200 with the file's bytes as body.
C1_Original ==
  \A c \in Clients : \A k \in ReadableFiles(fs) :
    (ServedGET(c) /\ conn[c].req.path = URLOf(k))
      => (conn[c].resp.status = 200 /\ conn[c].resp.body = fs[k].data)

\* C1, amended: a GET for the relative path of an existing readable regular
\* file under the serving root is answered 200 with the file's bytes as body,
\* unless it carries an If-Modified-Since date (in UTC, and no If-None-Match)
\* that is not before the file's modification time: then the answer is 304
\* with an empty body.
C1_FileServed ==
  \A c \in Clients : \A k \in ReadableFiles(fs) :
    (ServedGET(c) /\ conn[c].req.path = URLOf(k))
      => IF NotModifiedSince(fs, k, conn[c].req)
         THEN conn[c].resp.status = 304 /\ conn[c].resp.body = <<>>
         ELSE conn[c].resp.status = 200 /\ conn[c].resp.body = fs[k].data

\* a file in a subdirectory of the root has been served with its bytes
C1_Witness ==
  \E c \in Clients : \E k \in ReadableFiles(fs) :
    /\ ServedGET(c) /\ conn[c].req.path = URLOf(k) /\ Len(k) > 2
    /\ conn[c].resp.status = 200 /\ conn[c].resp.body = fs[k].data

\* the unquoted request path holds a parent-directory segment
HasParentSegment(path) ==
  LET segs == Split(unquote(BeforeFirst(BeforeFirst(path, "?"), "#")), SEP)
  IN  \E i \in 1..Len(segs) : segs[i] = DOTDOT

\* the contents of the regular files outside the serving root
OutsideData(f) == { f[k].data : k \in { j \in DOMAIN f : ~InRoot(j) /\ f[j].kind = "file" } }

NoCorrespondingFile(f, path) ==
  IsErrno(namei(f, translate_path(getcwd, parse_path(path))))

\* C3: a GET for a path with no corresponding file under the serving root is
\* answered 404, and the server is still running its loop afterwards.
C3_NotFound ==
  \A c \in Clients :
    (ServedGET(c) /\ NoCorrespondingFile(fs, conn[c].req.path))
      => /\ conn[c].resp.status = 404
         /\ conn[c].resp.file = NoFile
         /\ Listening(conn[c].srv)

\* a missing file has been answered 404 by a server that goes on
C3_Witness ==
  \E c \in Clients :
    /\ ServedGET(c) /\ NoCorrespondingFile(fs, conn[c].req.path)
    /\ conn[c].req.path = <<SEP>> \o N_a_zz
    /\ conn[c].resp.status = 404
    /\ pc[conn[c].srv] = "handling"

\* the last name of a key
BaseName(k) == k[Len(k)]

\* C8: the Content-Type of a successful GET response that serves a file is
\* determined by the file's extension: HTML for index.html, JSON for
\* data.json, plain text for .txt, and the generic default
\* application/octet-stream for an extension without a mapping or no extension.
C8_ContentType ==
  \A c \in Clients :
    (ServedGET(c) /\ conn[c].resp.status = 200 /\ conn[c].resp.file # NoFile
       /\ fs[conn[c].resp.file].kind = "file")
      => LET name == BaseName(conn[c].resp.file)
             ctype == conn[c].resp.ctype
         IN  /\ name = N_index_html => ctype = "text/html"
             /\ name = N_index_htm => ctype = "text/html"
             /\ name = N_data_json => ctype = "application/json"
             /\ name = N_hello_txt => ctype = "text/plain"
             /\ name \in {N_a_zz, N_secret} => ctype = "application/octet-stream"
             /\ name \in {N_index_html, N_index_htm, N_data_json, N_hello_txt,
                          N_a_zz, N_secret}

\* data.json has been served as JSON
C8_Witness ==
  \E c \in Clients :
    /\ ServedGET(c) /\ conn[c].resp.status = 200
    /\ conn[c].resp.file = <<N_srv, N_data_json>>
    /\ conn[c].resp.ctype = "application/json"

\* the connections a server has accepted and not yet closed
InHandling(p) ==
  { c \in Clients : conn[c].srv = p
                    /\ conn[c].st \in {"accepted", "read", "done", "aborted"} }

\* run_server is called on a port another instance is listening on
StartsOnBusyPort(p) ==
  /\ pc[p] = "idle" /\ pc'[p] # "idle"
  /\ port'[p] # 0
  /\ \E q \in Procs \ {p} : Listening(q) /\ sock[q] = port'[p]

\* C4: a run_server started on a port another running instance listens on
\* fails at bind: the process exits with a non-zero status and a traceback,
\* announces nothing, never enters the accept loop, never serves a request,
\* is bound to no port at all, and the first instance keeps listening on its
\* port.
C4_SecondStartFails ==
  /\ [][\A p \in Procs :
          /\ StartsOnBusyPort(p)
               => /\ pc'[p] = "failed"
                  /\ \A q \in Procs \ {p} :
                       Listening(q) => (pc'[q] = pc[q] /\ sock'[q] = sock[q])
          /\ pc[p] = "failed" => pc'[p] = "failed"]_vars
  /\ [](\A p \in Procs :
          pc[p] = "failed"
            => /\ exit[p] > 0
               /\ cause[p] = "OSError"
               /\ out[p] = <<>>
               /\ sock[p] = 0
               /\ \A c \in Clients : conn[c].srv # p)

\* the second instance has failed on the port the first one serves on
C4_Witness ==
  /\ pc["second"] = "failed" /\ exit["second"] = 1
  /\ pc["first"] = "handling" /\ sock["first"] = port["second"]
  /\ \E c \in Clients : conn[c].srv = "first" /\ conn[c].st = "done"

\* the server's state in the terms of the specification
StateOf(p) ==
  IF Listening(p) THEN "LISTENING"
  ELSE IF pc[p] = "idle" THEN "NOT_STARTED"
  ELSE "STOPPED"

\* a request of server p reaches its outcome in this step
RequestEnds(p) ==
  \E c \in Clients :
    /\ conn[c].srv = p /\ conn[c].st \in {"accepted", "read"}
    /\ conn'[c].st \in {"done", "aborted"}

\* C5: a started server is LISTENING or STOPPED; no request outcome, a failure
\* while handling a request included, moves it from LISTENING to STOPPED; the
\* only step from LISTENING to STOPPED is the termination of the process; and
\* nothing leads from STOPPED back to LISTENING.
C5_TwoStates ==
  [][\A p \in Procs :
       /\ RequestEnds(p) => StateOf(p)' = "LISTENING"
       /\ (StateOf(p) = "LISTENING" /\ StateOf(p)' # "LISTENING")
            => (pc'[p] = "stopped" /\ cause'[p] = "KeyboardInterrupt")
       /\ StateOf(p) = "STOPPED" => (StateOf(p)' = "STOPPED" /\ pc'[p] = pc[p])
       /\ StateOf(p)' \in {"LISTENING", "STOPPED"} \/ pc'[p] = "idle"]_vars

\* a handler has failed and its server is still listening
C5_Witness ==
  \E c \in Clients :
    conn[c].st = "aborted" /\ StateOf(conn[c].srv) = "LISTENING"

\* C6: a server handles its connections one at a time: at most one accepted
\* connection is open (request being read, response being written, or written
\* and not yet closed) at any moment, so the next one is accepted only after
\* the response to the current one has been written.
C6_OneAtATime ==
  \A p \in Procs : Cardinality(InHandling(p)) <= 1

\* one client's request is being handled while another waits in the queue of
\* the same server
C6_Witness ==
  \E c, d \in Clients :
    /\ c # d /\ conn[c].srv = conn[d].srv
    /\ conn[c].st = "read" /\ conn[d].st = "queued"

\* C7: after startup neither the configuration nor the served data changes:
\* the arguments, the port parameter and the bound port stay as they are (the
\* port is 8000 when run_server was called without arguments), and no step,
\* a request handled with success or failure included, changes the file
\* system.
C7_NothingChanges ==
  /\ [][/\ fs' = fs
        /\ \A p \in Procs :
             /\ pc[p] # "idle" => (port'[p] = port[p] /\ args'[p] = args[p])
             /\ Listening(p) => sock'[p] = sock[p]]_vars
  /\ [](\A p \in Procs :
          (Listening(p) /\ args[p] = <<>>) => (port[p] = 8000 /\ sock[p] = 8000))

\* a server started without arguments has answered a request on port 8000
C7_Witness ==
  \E c \in Clients :
    /\ Served(c) /\ conn[c].resp.status = 200
    /\ args[conn[c].srv] = <<>> /\ sock[conn[c].srv] = 8000

\* C10: the announcement is printed once per run_server call, after a
\* successful bind and before the first connection is accepted, never when
\* the bind fails, and the port it names is the port the listener is bound to.
C10_Announcement ==
  \A p \in Procs :
    /\ Len(out[p]) <= 1
    /\ pc[p] \in {"idle", "bound", "failed"} => out[p] = <<>>
    /\ pc[p] \in {"serving", "handling"} => Len(out[p]) = 1
    /\ InHandling(p) # {} => Len(out[p]) = 1
    /\ out[p] # <<>> => out[p][1] = sock[p]

=============================================================================
